---- MODULE Spec2Model ----
(***************************************************************************)
(* A model of dm-data-format-permutator (src/main.py): a CSV column        *)
(* masker.  Strings are sequences of one-character strings, so that the    *)
(* regular expressions of detect_data_type, str.replace, str.strip, float  *)
(* and the f-string formatting of permute_data_format are computed on the  *)
(* characters and not assumed.                                             *)
(*                                                                         *)
(* Three specifications share the definitions:                             *)
(*   Spec      main(): the row pipeline, with the file system and the      *)
(*             exceptions the file operations can raise;                   *)
(*   SpecFab   permute_data_format called on every (value, tag, locale);   *)
(*   SpecPath  the default output path of main() for every input path.     *)
(***************************************************************************)
EXTENDS Integers, Sequences, FiniteSets, TLC

VARIABLES
    \* ---- main(): arguments and locals
    pc,             \* position in main()
    csv_file,       \* args.csv_file
    output_arg,     \* args.output_file (<<>>: None or '', the falsy values)
    column_name,    \* args.column_name
    locale,         \* args.locale
    output_file,    \* local output_file (line 100)
    header,         \* local header (line 110)
    column_index,   \* local column_index (line 114)
    rpos,           \* rows the csv reader has consumed from infile
    \* ---- environment of main()
    fs,             \* the file system: path -> whether the file exists, its rows
    input0,         \* the rows of the input file when main() started
    infile,         \* the handle of open(csv_file, 'r'): state and open count
    outfile,        \* the handle of open(output_file, 'w')
    row_result,     \* per data row read, the branch of lines 120-131 it took
    log,            \* the lines main() gives to logging (not those of line 48, 57, 60)
    exit_code,      \* the process's exit code (-1 while it runs)
    io_fault,       \* a file operation has raised an error of the environment
    \* ---- permute_data_format called on its own (SpecFab)
    call,           \* the arguments of the call
    ret             \* its outcome

vars == <<pc, csv_file, output_arg, column_name, locale, output_file, header,
          column_index, rpos, fs, input0, infile, outfile, row_result, log,
          exit_code, io_fault, call, ret>>


\* ------------------------------------------------------------------------
\* Bounds of the model
\* ------------------------------------------------------------------------
MaxRows == 2        \* data rows of the input file
MaxFields == 2      \* fields of a data row
MaxDataLen == 3     \* characters of a value given to permute_data_format
MaxPathLen == 9     \* characters of an input path

\* ------------------------------------------------------------------------
\* Strings
\* ------------------------------------------------------------------------
Digit == {"0", "1", "2", "3", "4", "5", "6", "7", "8", "9"}
DigitChar == <<"0", "1", "2", "3", "4", "5", "6", "7", "8", "9">>
WS == {" "}

\* All strings over alphabet A of length <= n.
StrUpTo(A, n) == UNION {[1..k -> A] : k \in 0..n}

\* str(n) of a non-negative int, as the f-string of line 53 formats it.
RECURSIVE IntToStr(_)
IntToStr(n) ==
    IF n < 10 THEN <<DigitChar[n + 1]>>
    ELSE IntToStr(n \div 10) \o <<DigitChar[(n % 10) + 1]>>

\* str.strip(): leading and trailing whitespace removed.
RECURSIVE LStrip(_)
LStrip(s) == IF s # <<>> /\ Head(s) \in WS THEN LStrip(Tail(s)) ELSE s
RECURSIVE RStrip(_)
RStrip(s) ==
    IF s # <<>> /\ s[Len(s)] \in WS THEN RStrip(SubSeq(s, 1, Len(s) - 1)) ELSE s
Strip(s) == RStrip(LStrip(s))

IsPrefix(p, s) == Len(p) <= Len(s) /\ SubSeq(s, 1, Len(p)) = p

\* str.replace(old, new): every non-overlapping occurrence of old, scanning
\* from the left, is replaced by new.
RECURSIVE Replace(_, _, _)
Replace(s, old, new) ==
    IF s = <<>> THEN <<>>
    ELSE IF IsPrefix(old, s)
         THEN new \o Replace(SubSeq(s, Len(old) + 1, Len(s)), old, new)
         ELSE <<Head(s)>> \o Replace(Tail(s), old, new)

\* ------------------------------------------------------------------------
\* detect_data_type (lines 63-89)
\* ------------------------------------------------------------------------
\* One step of a regular expression over s: from the set S of positions
\* reached (characters consumed), consume one character of class C.
Class(s, S, C) == {i + 1 : i \in {j \in S : j < Len(s) /\ s[j + 1] \in C}}
\* x? : zero or one character of class C.
Opt(s, S, C) == S \cup Class(s, S, C)
\* \d{3} and \d{4}
Digits3(s, S) == Class(s, Class(s, Class(s, S, Digit), Digit), Digit)
Digits4(s, S) == Class(s, Digits3(s, S), Digit)

\* re.match(r'\d{4}-\d{2}-\d{2}', s): a prefix match.
MatchIsoDate(s) ==
    LET a == Digits4(s, {0})
        b == Class(s, a, {"-"})
        c == Class(s, Class(s, b, Digit), Digit)
        d == Class(s, c, {"-"})
        e == Class(s, Class(s, d, Digit), Digit)
    IN  e # {}

\* re.match(r'\d{2}/\d{2}/\d{4}', s)
MatchUsDate(s) ==
    LET a == Class(s, Class(s, {0}, Digit), Digit)
        b == Class(s, a, {"/"})
        c == Class(s, Class(s, b, Digit), Digit)
        d == Class(s, c, {"/"})
        e == Digits4(s, d)
    IN  e # {}

\* re.match(r'\$\d+(\,\d{3})*(\.\d{2})?', s): the two groups may match the
\* empty string, so a prefix match exists exactly when \$\d matches.
MatchCurrency(s) == Class(s, Class(s, {0}, {"$"}), Digit) # {}

\* re.match(r'(\+\d{1,3})?\s?\(?\d{3}\)?[-.\s]?\d{3}[-.\s]?\d{4}', s)
MatchPhone(s) ==
    LET p  == Class(s, {0}, {"+"})
        d1 == Class(s, p, Digit)
        d2 == Class(s, d1, Digit)
        d3 == Class(s, d2, Digit)
        s1 == {0} \cup d1 \cup d2 \cup d3
        s2 == Opt(s, s1, WS)
        s3 == Opt(s, s2, {"("})
        s4 == Digits3(s, s3)
        s5 == Opt(s, s4, {")"})
        s6 == Opt(s, s5, {"-", "."} \cup WS)
        s7 == Digits3(s, s6)
        s8 == Opt(s, s7, {"-", "."} \cup WS)
        s9 == Digits4(s, s8)
    IN  s9 # {}

detect_data_type(data) ==
    LET d == Strip(data)
    IN  IF d = <<>> THEN "unknown"
        ELSE IF MatchIsoDate(d) THEN "date"
        ELSE IF MatchUsDate(d) THEN "date"
        ELSE IF MatchCurrency(d) THEN "currency"
        ELSE IF MatchPhone(d) THEN "telephone"
        ELSE "unknown"

\* ------------------------------------------------------------------------
\* The libraries permute_data_format calls
\* ------------------------------------------------------------------------
\* Faker(locale) (line 38) raises AttributeError for a locale it has no
\* providers for.
ValidLocales == {"en_US", "fr_FR"}
Locales == ValidLocales \cup {"xx_XX"}

\* dateutil's parser.parse(data) (line 44) is not computed: it returns a
\* date, raises ValueError (ParserError), or raises another exception
\* (OverflowError), as the environment chooses.
ParseOutcomes == {"ok", "ValueError", "OverflowError"}

\* '%02d'
Pad2(n) == IF n < 10 THEN <<"0">> \o IntToStr(n) ELSE IntToStr(n)
\* strftime('%Y-%m-%d')
Strftime(y, m, d) == IntToStr(y) \o <<"-">> \o Pad2(m) \o <<"-">> \o Pad2(d)
\* fake.date_time_this_decade(): some dates of the decade.
FakeDates == {Strftime(2021, m, 7) : m \in {3, 11}}

\* fake.random_number(digits=d) with fix_len left False is
\* random.randint(0, 10**d - 1); the draws the model takes among them.
RandomDraws == {45, 123}
random_number(digits) == {n \in RandomDraws : n <= 10 ^ digits - 1}

\* fake.phone_number(): some numbers of the locale's formats.
phone_number(loc) ==
    IF loc = "fr_FR" THEN {<<"+", "3", "3", " ", "1", " ", "2", "3", " ", "4", "5", " ", "6", "7", " ", "8", "9">>}
    ELSE {<<"5", "5", "5", "-", "1", "2", "3", "-", "4", "5", "6", "7">>,
          <<"(", "5", "5", "5", ")", "1", "2", "3", "-", "4", "5", "6", "7", "x", "8", "9">>}

\* fake.pystr(min_chars=n, max_chars=n): n random letters; the draws the
\* model takes among them repeat one letter.
Letters == {"X", "y"}
pystr(n) == {[i \in 1..n |-> l] : l \in Letters}

\* float(s) succeeds (lines 51): optional surrounding whitespace, an optional
\* sign, digits with at most one point and at least one digit.  The
\* alphabets of the model hold none of e, E, _ and the letters of inf and nan.
FloatOk(s) ==
    LET t == Strip(s)
        u == IF t # <<>> /\ Head(t) \in {"+", "-"} THEN Tail(t) ELSE t
    IN  /\ u # <<>>
        /\ \A i \in 1..Len(u) : u[i] \in Digit \cup {"."}
        /\ Cardinality({i \in 1..Len(u) : u[i] = "."}) <= 1
        /\ \E i \in 1..Len(u) : u[i] \in Digit

\* ------------------------------------------------------------------------
\* permute_data_format (lines 26-61): the set of its outcomes
\* ------------------------------------------------------------------------
Returned(v) == [kind |-> "return", value |-> v, exc |-> "none"]
Raised(e) == [kind |-> "raise", value |-> <<>>, exc |-> e]

\* line 53: f"${fake.random_number(digits=3)}.{fake.random_number(digits=2)}"
FormatCurrency(a, b) == <<"$">> \o IntToStr(a) \o <<".">> \o IntToStr(b)

\* Faker(locale) at line 38 returns: the locale is one Faker knows.
FakerConstructs(loc) == loc \in ValidLocales

permute_data_format(data, data_type, loc) ==
    IF ~FakerConstructs(loc)
    THEN {Raised("AttributeError")}                  \* line 38 is outside the try
    ELSE IF data_type = "date"
    THEN UNION {IF p = "ok"
                THEN {Returned(d) : d \in FakeDates}     \* line 45
                ELSE {Returned(data)}                    \* lines 47-49, 59-61
                : p \in ParseOutcomes}
    ELSE IF data_type = "currency"
    THEN IF FloatOk(Replace(Replace(data, <<"$">>, <<>>), <<",">>, <<>>))
         THEN {Returned(FormatCurrency(a, b)) :
                   a \in random_number(3), b \in random_number(2)}
         ELSE {Returned(data)}                           \* ValueError, lines 59-61
    ELSE IF data_type = "telephone"
    THEN {Returned(p) : p \in phone_number(loc)}         \* line 55
    ELSE {Returned(s) : s \in pystr(Len(data))}          \* lines 57-58

\* ------------------------------------------------------------------------
\* main() (lines 91-139): helpers
\* ------------------------------------------------------------------------
\* line 100: csv_file.replace(".csv", "_masked.csv")
DefaultOutputFile(path) == Replace(path, <<".", "c", "s", "v">>, <<"_", "m", "a", "s", "k", "e", "d", ".", "c", "s", "v">>)

\* line 100: args.output_file or <default>; None and '' are the falsy values.
ResolveOutputFile(arg, path) == IF arg = <<>> THEN DefaultOutputFile(path) ELSE arg

\* line 114: header.index(column_name), -1 standing for its ValueError.
HeaderIndex(h, name) ==
    IF \E i \in 1..Len(h) : h[i] = name
    THEN (CHOOSE i \in 1..Len(h) : h[i] = name /\ \A j \in 1..(i - 1) : h[j] # name) - 1
    ELSE -1

\* line 121: row[column_index] raises IndexError.
IsShort(row, ci) == Len(row) <= ci

\* A mutant of AssignCell: the first cell is assigned, whatever the index.
AssignFirstCell(row, ci, v) == [row EXCEPT ![1] = v]

\* line 124: row[column_index] = masked_data, in place.
AssignCell(row, ci, v) == [row EXCEPT ![ci + 1] = v]

\* Mutants of ShortRowWrites: the row is skipped, as the warning's text has
\* it; the row is padded with an empty field.
ShortRowSkipped(row) == <<>>
ShortRowPadded(row) == <<Append(row, <<>>)>>

\* line 128: the rows the IndexError handler gives to the writer.
ShortRowWrites(row) == <<row>>

\* line 131: writer.writerow(row) in the handler writes the list as it is
\* then: assigned at line 124 when the error came after it.
RowInHandler(original, current) == current

\* A mutant of IsException: a bare except, which catches SystemExit too.
IsCaughtByBareExcept(exc) == TRUE

\* lines 134, 137: "except Exception" catches the exception.  SystemExit
\* derives from BaseException and passes both handlers.
IsException(exc) == exc # "SystemExit"

\* lines 134-139: what the handlers around the file scope log.
HandlerLog(exc) ==
    IF ~IsException(exc) THEN <<>>
    ELSE IF exc = "FileNotFoundError" THEN <<"ERROR file not found">>
    ELSE <<"ERROR unexpected error">>

\* A mutant of CloseOnExit: open() without the with statement.
LeftOpenOnExit(h) == h

\* lines 104-105: leaving the with statement closes a file it opened.
CloseOnExit(h) == [h EXCEPT !.state = IF @ = "open" THEN "closed" ELSE @]

\* A mutant of TruncateOnOpen: mode 'a'.
KeptOnOpen(rows) == rows

\* line 105: mode 'w' truncates the file.
TruncateOnOpen(rows) == <<>>

Opened(h) == [state |-> "open", opens |-> h.opens + 1]

\* The run ends: the with statement is left, then the process exits.
Terminate(code, lines) ==
    /\ pc' = "done"
    /\ exit_code' = code
    /\ log' = log \o lines
    /\ infile' = CloseOnExit(infile)
    /\ outfile' = CloseOnExit(outfile)

\* An exception leaves the try of line 103: lines 134-139 (sys.exit(1)), or
\* SystemExit(1) itself ending the process.
Raise(exc, lines) == Terminate(1, lines \o HandlerLog(exc))

\* writer.writerow(r) that returns.
WriteRows(rs) == fs' = [fs EXCEPT ![output_file].rows = @ \o rs]

InRows == fs[csv_file].rows
OutRows == fs[output_file].rows

\* ------------------------------------------------------------------------
\* main(): the steps
\* ------------------------------------------------------------------------
\* lines 95-101
ParseArgs ==
    /\ pc = "start"
    /\ output_file' = ResolveOutputFile(output_arg, csv_file)
    /\ pc' = "open_in"
    /\ UNCHANGED <<csv_file, output_arg, column_name, locale, header, column_index,
                   rpos, fs, input0, infile, outfile, row_result, log, exit_code,
                   io_fault, call, ret>>

\* line 104: open(csv_file, 'r')
OpenInfile ==
    /\ pc = "open_in"
    /\ \/ /\ ~fs[csv_file].exists
          /\ Raise("FileNotFoundError", <<>>)
          /\ UNCHANGED io_fault
       \/ /\ fs[csv_file].exists
          /\ \/ /\ Raise("PermissionError", <<>>)
                /\ io_fault' = TRUE
             \/ /\ infile' = Opened(infile)
                /\ pc' = "open_out"
                /\ UNCHANGED <<outfile, log, exit_code, io_fault>>
    /\ UNCHANGED <<csv_file, output_arg, column_name, locale, output_file, header,
                   column_index, rpos, fs, input0, row_result, call, ret>>

\* line 105: open(output_file, 'w')
OpenOutfile ==
    /\ pc = "open_out"
    /\ \/ /\ \E exc \in {"FileNotFoundError", "PermissionError"} : Raise(exc, <<>>)
          /\ io_fault' = TRUE
          /\ UNCHANGED fs
       \/ /\ outfile' = Opened(outfile)
          /\ fs' = [fs EXCEPT ![output_file] =
                        [exists |-> TRUE, rows |-> TruncateOnOpen(@.rows)]]
          /\ pc' = "header"
          /\ UNCHANGED <<infile, log, exit_code, io_fault>>
    /\ UNCHANGED <<csv_file, output_arg, column_name, locale, output_file, header,
                   column_index, rpos, input0, row_result, call, ret>>

\* line 110: header = next(reader)
ReadHeader ==
    /\ pc = "header"
    /\ \/ /\ rpos >= Len(InRows)
          /\ Raise("StopIteration", <<>>)
          /\ UNCHANGED <<header, rpos, io_fault>>
       \/ /\ rpos < Len(InRows)
          /\ \/ /\ Raise("OSError", <<>>)
                /\ io_fault' = TRUE
                /\ UNCHANGED <<header, rpos>>
             \/ /\ header' = InRows[rpos + 1]
                /\ rpos' = rpos + 1
                /\ pc' = "write_header"
                /\ UNCHANGED <<infile, outfile, log, exit_code, io_fault>>
    /\ UNCHANGED <<csv_file, output_arg, column_name, locale, output_file,
                   column_index, fs, input0, row_result, call, ret>>

\* line 111: writer.writerow(header)
WriteHeader ==
    /\ pc = "write_header"
    /\ \/ /\ Raise("OSError", <<>>)
          /\ io_fault' = TRUE
          /\ UNCHANGED fs
       \/ /\ WriteRows(<<header>>)
          /\ pc' = "resolve"
          /\ UNCHANGED <<infile, outfile, log, exit_code, io_fault>>
    /\ UNCHANGED <<csv_file, output_arg, column_name, locale, output_file, header,
                   column_index, rpos, input0, row_result, call, ret>>

\* lines 113-117
ResolveColumn ==
    /\ pc = "resolve"
    /\ LET i == HeaderIndex(header, column_name)
       IN  \/ /\ i < 0
              /\ Raise("SystemExit", <<"ERROR column not found">>)
              /\ UNCHANGED column_index
           \/ /\ i >= 0
              /\ column_index' = i
              /\ pc' = "rows"
              /\ UNCHANGED <<infile, outfile, log, exit_code>>
    /\ UNCHANGED <<csv_file, output_arg, column_name, locale, output_file, header,
                   rpos, fs, input0, row_result, io_fault, call, ret>>

\* line 119, the reader is exhausted; then line 132 and the return of main().
RowsExhausted ==
    /\ pc = "rows"
    /\ rpos >= Len(InRows)
    /\ Terminate(0, <<"INFO completed">>)
    /\ UNCHANGED <<csv_file, output_arg, column_name, locale, output_file, header,
                   column_index, rpos, fs, input0, row_result, io_fault, call, ret>>

\* line 119, the reader raises: the for statement is outside the try of
\* line 120.
RowReadFails ==
    /\ pc = "rows"
    /\ rpos < Len(InRows)
    /\ Raise("OSError", <<>>)
    /\ io_fault' = TRUE
    /\ UNCHANGED <<csv_file, output_arg, column_name, locale, output_file, header,
                   column_index, rpos, fs, input0, row_result, call, ret>>

\* lines 119-121, 126-128: a row without the target cell.
RowShort ==
    /\ pc = "rows"
    /\ rpos < Len(InRows)
    /\ LET row == InRows[rpos + 1]
       IN  /\ IsShort(row, column_index)
           /\ \/ /\ WriteRows(ShortRowWrites(row))
                 /\ log' = log \o <<"WARNING short row">>
                 /\ UNCHANGED <<pc, infile, outfile, exit_code, io_fault>>
              \/ /\ Raise("OSError", <<"WARNING short row">>)
                 /\ io_fault' = TRUE
                 /\ UNCHANGED fs
    /\ rpos' = rpos + 1
    /\ row_result' = Append(row_result, "short")
    /\ UNCHANGED <<csv_file, output_arg, column_name, locale, output_file, header,
                   column_index, input0, call, ret>>

\* lines 119-125, 129-131: a row with the target cell.
RowProcess ==
    /\ pc = "rows"
    /\ rpos < Len(InRows)
    /\ LET row == InRows[rpos + 1]
       IN  /\ ~IsShort(row, column_index)
           /\ LET original_data == row[column_index + 1]
                  data_type == detect_data_type(original_data)
              IN  \E o \in permute_data_format(original_data, data_type, locale) :
                    \/ \* line 123 raises; the handler writes the row (line 131)
                       /\ o.kind = "raise"
                       /\ row_result' = Append(row_result, "error")
                       /\ \/ /\ WriteRows(<<RowInHandler(row, row)>>)
                             /\ log' = log \o <<"ERROR processing row">>
                             /\ UNCHANGED <<pc, infile, outfile, exit_code, io_fault>>
                          \/ /\ Raise("OSError", <<"ERROR processing row">>)
                             /\ io_fault' = TRUE
                             /\ UNCHANGED fs
                    \/ \* lines 124-125
                       /\ o.kind = "return"
                       /\ LET masked == AssignCell(row, column_index, o.value)
                          IN  \/ \* line 125 returns
                                 /\ WriteRows(<<masked>>)
                                 /\ row_result' = Append(row_result, "masked")
                                 /\ UNCHANGED <<pc, infile, outfile, log, exit_code,
                                                io_fault>>
                              \/ \* line 125 raises, line 131 returns
                                 /\ WriteRows(<<RowInHandler(row, masked)>>)
                                 /\ row_result' = Append(row_result, "error")
                                 /\ log' = log \o <<"ERROR processing row">>
                                 /\ io_fault' = TRUE
                                 /\ UNCHANGED <<pc, infile, outfile, exit_code>>
                              \/ \* line 125 raises, line 131 raises
                                 /\ Raise("OSError", <<"ERROR processing row">>)
                                 /\ row_result' = Append(row_result, "error")
                                 /\ io_fault' = TRUE
                                 /\ UNCHANGED fs
    /\ rpos' = rpos + 1
    /\ UNCHANGED <<csv_file, output_arg, column_name, locale, output_file, header,
                   column_index, input0, call, ret>>

\* ------------------------------------------------------------------------
\* The inputs of main()
\* ------------------------------------------------------------------------
ID == <<"i", "d">>
PHONE == <<"p", "h">>
Headers == {<<ID, PHONE>>, <<PHONE>>, <<ID>>}
\* A currency value and the empty value, of unknown type.
CellValues == {<<"$", "1">>, <<>>}
DataRows == UNION {[1..k -> CellValues] : k \in 0..MaxFields}
RowSeqs == UNION {[1..k -> DataRows] : k \in 0..MaxRows}
\* An input file: empty, or a header and data rows.
InputFiles == {<<>>} \cup {<<h>> \o rs : h \in Headers, rs \in RowSeqs}

InputPaths == {<<"a", ".", "c", "s", "v">>, <<"a">>}
OutputArgs == {<<>>, <<"a", ".", "c", "s", "v">>}
Paths == InputPaths \cup (OutputArgs \ {<<>>}) \cup {DefaultOutputFile(p) : p \in InputPaths}
MainLocales == {"en_US", "xx_XX"}

NoCall == [data |-> <<>>, data_type |-> "unknown", locale |-> "en_US"]
NoRet == [kind |-> "none", value |-> <<>>, exc |-> "none"]
Unopened == [state |-> "unopened", opens |-> 0]
Absent == [exists |-> FALSE, rows |-> <<>>]

InitLocals ==
    /\ output_file = <<>>
    /\ header = <<>>
    /\ column_index = -1
    /\ rpos = 0
    /\ infile = Unopened
    /\ outfile = Unopened
    /\ row_result = <<>>
    /\ log = <<>>
    /\ exit_code = -1
    /\ io_fault = FALSE

Init ==
    /\ pc = "start"
    /\ csv_file \in InputPaths
    /\ output_arg \in OutputArgs
    /\ column_name = PHONE
    /\ locale \in MainLocales
    /\ \E content \in {Absent} \cup {[exists |-> TRUE, rows |-> f] : f \in InputFiles} :
          /\ fs = [p \in Paths |-> IF p = csv_file THEN content ELSE Absent]
          /\ input0 = content.rows
    /\ InitLocals
    /\ call = NoCall
    /\ ret = NoRet

Next ==
    \/ ParseArgs
    \/ OpenInfile
    \/ OpenOutfile
    \/ ReadHeader
    \/ WriteHeader
    \/ ResolveColumn
    \/ RowsExhausted
    \/ RowReadFails
    \/ RowShort
    \/ RowProcess

Spec == Init /\ [][Next]_vars

\* ------------------------------------------------------------------------
\* permute_data_format on its own: every value, tag and locale
\* ------------------------------------------------------------------------
Tags == {"date", "currency", "telephone", "unknown"}
ValueAlphabet == {"$", "1", ",", ".", "x", " "}
\* The values of the documentation's examples, and one with trailing text.
SampleValues == {<<"2", "0", "2", "3", "-", "0", "5", "-", "0", "1">>,
                 <<"0", "5", "/", "0", "1", "/", "2", "0", "2", "3">>,
                 <<"$", "1", ",", "2", "3", "4", ".", "5", "6">>,
                 <<"$", "1", ",", "2", "3", "4", ".", "5", "6", " ", "U", "S", "D">>,
                 <<"+", "1", " ", "(", "5", "5", "5", ")", " ", "1", "2", "3", "-", "4", "5", "6", "7">>}
FabValues == StrUpTo(ValueAlphabet, MaxDataLen) \cup SampleValues

InitIdle ==
    /\ csv_file = <<>>
    /\ output_arg = <<>>
    /\ column_name = PHONE
    /\ locale = "en_US"
    /\ fs = [p \in Paths |-> Absent]
    /\ input0 = <<>>
    /\ InitLocals

InitFab ==
    /\ pc = "call"
    /\ InitIdle
    /\ call \in [data : FabValues, data_type : Tags, locale : Locales]
    /\ ret = NoRet

\* A call of permute_data_format (line 26) and its outcome.
CallPermute ==
    /\ pc = "call"
    /\ \E o \in permute_data_format(call.data, call.data_type, call.locale) :
          ret' = o
    /\ pc' = "returned"
    /\ UNCHANGED <<csv_file, output_arg, column_name, locale, output_file, header,
                   column_index, rpos, fs, input0, infile, outfile, row_result, log,
                   exit_code, io_fault, call>>

NextFab == CallPermute

SpecFab == InitFab /\ [][NextFab]_vars

\* ------------------------------------------------------------------------
\* The output path of main() for every input path
\* ------------------------------------------------------------------------
PathAlphabet == {"a", ".", "c", "s", "v"}

InitPath ==
    /\ pc = "start"
    /\ \E k \in 1..MaxPathLen : csv_file \in [1..k -> PathAlphabet]
    /\ output_arg \in {<<>>, <<"o">>}
    /\ column_name = PHONE
    /\ locale = "en_US"
    /\ fs = [p \in Paths |-> Absent]
    /\ input0 = <<>>
    /\ InitLocals
    /\ call = NoCall
    /\ ret = NoRet

NextPath == ParseArgs

SpecPath == InitPath /\ [][NextPath]_vars

\* ------------------------------------------------------------------------
\* Claims
\* ------------------------------------------------------------------------
Done == pc = "done"
\* The files are open or were: OutRows is defined.
Opening == pc \notin {"start", "open_in", "open_out"}
\* The run the claims about rows are about: an input file that exists, an
\* output path that is another file.
TwoFiles == output_file # csv_file /\ fs[csv_file].exists
ColumnPresent(h) == HeaderIndex(h, column_name) >= 0
Count(seq, x) == Cardinality({i \in 1..Len(seq) : seq[i] = x})
Contains(s, sub) ==
    \E i \in 0..(Len(s) - Len(sub)) : SubSeq(s, i + 1, i + Len(sub)) = sub
EndsWith(s, suf) ==
    Len(suf) <= Len(s) /\ SubSeq(s, Len(s) - Len(suf) + 1, Len(s)) = suf

\* C1 as stated: for every input, when main() has terminated the output
\* holds as many rows as the input, header included.  Stated for the runs
\* in which the input file exists, the output is another file and no file
\* operation raised: it fails there already, on a header without the target
\* column followed by data rows.
C1_RowCountForAllInputs ==
    (Done /\ Opening /\ TwoFiles /\ ~io_fault) => Len(OutRows) = Len(input0)

\* C1 amended: when main() ends with exit code 0 the output holds as many
\* rows as the input, header included; without file errors it ends so for
\* every non-empty input whose header holds the target column and whose
\* output is another file; and when the header lacks the column at most the
\* header row is written.
C1_RowCountOnSuccess ==
    /\ (Done /\ exit_code = 0) => Len(OutRows) = Len(input0)
    /\ (Done /\ Opening /\ TwoFiles /\ ~io_fault /\ input0 # <<>>
          /\ ColumnPresent(input0[1])) => exit_code = 0
    /\ (Done /\ Opening /\ TwoFiles /\ input0 # <<>> /\ ~ColumnPresent(input0[1]))
          => (exit_code = 1 /\ Len(OutRows) <= 1)

\* A run that ended with exit code 0 on a short row and a masked row.
C1_Witness ==
    /\ Done /\ exit_code = 0 /\ Len(input0) = 3
    /\ Count(row_result, "short") = 1 /\ Count(row_result, "masked") = 1

\* C2: the i-th row written has as many fields as the i-th input row and the
\* same value at every position but the target column's; the header row is
\* written unchanged.
C2_OtherFieldsKept ==
    (Opening /\ TwoFiles) =>
        /\ Len(OutRows) <= Len(input0)
        /\ \A i \in 1..Len(OutRows) :
              /\ Len(OutRows[i]) = Len(input0[i])
              /\ \A j \in 1..Len(OutRows[i]) :
                    (i = 1 \/ j # column_index + 1) => OutRows[i][j] = input0[i][j]

\* A written row of two fields whose target cell was replaced.
C2_Witness ==
    /\ Done /\ Opening /\ TwoFiles /\ exit_code = 0 /\ column_index = 1
    /\ \E i \in 2..Len(OutRows) :
          Len(OutRows[i]) = 2 /\ OutRows[i][2] # input0[i][2]

\* C3: when the header read lacks the target column the run ends with exit
\* code 1, having read and written no data row; when no file operation
\* raised, the output is the header row alone and the log is the one error
\* line of line 116: the handlers around the file scope did not catch the
\* exit.
C3_MissingColumnFatal ==
    (Done /\ Opening /\ TwoFiles /\ rpos >= 1 /\ ~ColumnPresent(header)) =>
        /\ exit_code = 1
        /\ rpos = 1
        /\ row_result = <<>>
        /\ Len(OutRows) <= 1
        /\ ~io_fault => (OutRows = <<header>> /\ log = <<"ERROR column not found">>)

\* The exit of line 117 was taken on an input with data rows.
C3_Witness ==
    /\ Done /\ Opening /\ TwoFiles /\ ~io_fault
    /\ rpos = 1 /\ ~ColumnPresent(header) /\ Len(input0) > 1
    /\ OutRows = <<header>>

\* C4 as stated: for every data row whose processing raised an exception
\* (lines 129-131), the row written for it is the input row, and the run
\* goes on: the row is in the output.
C4_ErrorRowWrittenOriginal ==
    (Opening /\ TwoFiles) =>
        \A i \in 1..Len(row_result) :
            row_result[i] = "error" =>
                (Len(OutRows) >= i + 1 /\ OutRows[i + 1] = input0[i + 1])

\* C5: a data row with no field at the target index is written as it is,
\* with one warning logged; short rows are exactly the rows of length <= the
\* target index; and, no file operation raising, every row read so far is
\* in the output, and the run ends with exit code 0 having handled every row.
C5_ShortRowPassedThrough ==
    (pc \in {"rows", "done"} /\ TwoFiles /\ column_index >= 0) =>
        /\ \A i \in 1..Len(row_result) :
              /\ row_result[i] = "short" <=> Len(input0[i + 1]) <= column_index
              /\ (row_result[i] = "short" /\ Len(OutRows) >= i + 1)
                    => OutRows[i + 1] = input0[i + 1]
        /\ Count(log, "WARNING short row") = Count(row_result, "short")
        /\ ~io_fault => Len(OutRows) = 1 + Len(row_result)
        /\ (Done /\ ~io_fault) =>
              (exit_code = 0 /\ Len(row_result) = Len(input0) - 1)

\* An empty row was passed through and the row after it was masked.
C5_Witness ==
    /\ Done /\ Opening /\ TwoFiles /\ exit_code = 0 /\ Len(input0) = 3
    /\ input0[2] = <<>> /\ OutRows[2] = <<>>
    /\ row_result = <<"short", "masked">>
    /\ OutRows[3] # input0[3]

\* C6 as stated: permute_data_format never raises.
C6_NeverRaises == ret.kind # "raise"

\* C7 as stated: without -o, for an input path that ends in ".csv", the
\* output path is the input path with that suffix replaced by "_masked.csv"
\* and the rest of the path as it is.
C7_OnlySuffixReplaced ==
    (pc # "start" /\ output_arg = <<>> /\ EndsWith(csv_file, <<".", "c", "s", "v">>)) =>
        output_file = SubSeq(csv_file, 1, Len(csv_file) - 4) \o <<"_", "m", "a", "s", "k", "e", "d", ".", "c", "s", "v">>

\* C8: each file is opened at most once, and when main() has ended no file
\* it opened is open.
C8_FilesClosedOnExit ==
    /\ infile.opens <= 1
    /\ outfile.opens <= 1
    /\ Done => (infile.state # "open" /\ outfile.state # "open")

\* The second open failed after the first: the first file was closed.
C8_Witness ==
    Done /\ infile.state = "closed" /\ outfile.state = "unopened" /\ exit_code = 1

\* C9 as stated: for a value that detect_data_type classifies as currency,
\* permute_data_format (with a locale Faker knows) returns "$", three
\* digits, ".", two digits.
IsCurrencyShape(v) ==
    /\ Len(v) = 7
    /\ v[1] = "$"
    /\ \A i \in {2, 3, 4, 6, 7} : v[i] \in Digit
    /\ v[5] = "."
C9_CurrencyShape ==
    (pc = "returned" /\ call.data_type = "currency"
        /\ detect_data_type(call.data) = "currency"
        /\ call.locale \in ValidLocales /\ ret.kind = "return")
    => IsCurrencyShape(ret.value)

\* C10: the output file is opened, and truncated, before the header is
\* read; an input path without ".csv" and no -o give the input path as the
\* output path; and when the two paths are one existing file, that file is
\* empty from the second open on, no header is read, and the run ends with
\* exit code 1.
C10_InputTruncated ==
    /\ rpos >= 1 => outfile.opens = 1
    /\ (pc # "start" /\ output_arg = <<>> /\ ~Contains(csv_file, <<".", "c", "s", "v">>))
          => output_file = csv_file
    /\ (pc # "start" /\ output_file = csv_file /\ outfile.opens = 1) =>
          /\ fs[csv_file] = [exists |-> TRUE, rows |-> <<>>]
          /\ rpos = 0
          /\ header = <<>>
          /\ Done => exit_code = 1

\* Without -o, an input file with rows was emptied by the run.
C10_Witness ==
    /\ Done /\ output_arg = <<>> /\ output_file = csv_file
    /\ Len(input0) >= 2 /\ fs[csv_file].rows = <<>> /\ exit_code = 1

====
